---- MODULE Spec2Model ----
(***************************************************************************)
(* PTY session engine of pty-mcp: the session registry (SessionManager),   *)
(* its reaper (_cleanup_loop), the per-session teardown (PTYSession.stop)  *)
(* and the sentinel command protocol (PTYSession.run_command).             *)
(*                                                                         *)
(* Everything runs on one asyncio event loop: a coroutine runs without     *)
(* interruption from one await that really suspends to the next, so every  *)
(* action below is one such segment.  session.py reads the configuration   *)
(* through the names command / args / timeout_session / sentinel_command;  *)
(* the model follows session.py.                                           *)
(*                                                                         *)
(* A PTYSession object that nothing refers to any more (no registry entry, *)
(* no running stop(), no reader task) is freed by the interpreter: its     *)
(* attributes stop being program state, its child process and its fd       *)
(* number remain state of the operating system.                            *)
(*                                                                         *)
(* Spec    : registry, reaper, shutdown, teardown (time unit: one reaper   *)
(*           period).                                                      *)
(* SpecCmd : one started session, its reader and its run_command calls     *)
(*           (time unit: one poll interval).                               *)
(* SpecText: strip_ansi_codes and _filter_command_echo applied to bounded  *)
(*           arguments, and the reader fed the same text.                   *)
(***************************************************************************)
EXTENDS Integers, Sequences, FiniteSets, TLC

\* ------------------------------------------------------------------ bounds
MaxObjs == 2            \* PTYSession objects constructed in one run
MaxIds == 2             \* size of the session-id space explored
MaxNow == 3             \* the clock stops advancing here
MaxTimeout == 1         \* largest idle timeout / command timeout explored
max_sessions == 1       \* SessionManager(max_sessions=...)
MaxCalls == 2           \* run_command calls issued in one run
buffer_size == 1        \* SessionConfig.buffer_size
MaxLines == 2           \* lines the child prints in one run
MaxText == 4            \* characters of a text handed to strip_ansi_codes
MaxFilterLines == 2     \* lines handed to _filter_command_echo

\* the reaper sleeps 60 s between sweeps: one unit of the registry clock
ReaperPeriod == 1

\* the same 60 s counted in 50 ms poll intervals of run_command
ReaperPeriodInPolls == 1200

Objs == 1..MaxObjs
Ids == 1..MaxIds
NoObj == 0
CallIds == 1..MaxCalls

VARIABLES
    sessions,   \* SessionManager.sessions: the dict, as its items in insertion order
    sess,       \* the PTYSession objects, by allocation number
    nextObj,    \* number of PTYSession objects constructed (= children forked)
    now,        \* the clock
    reaper,     \* the _cleanup_task: position, snapshot it iterates, pending cancel
    mgr,        \* SessionManager.stop(): position, the snapshot it iterates, and
                \* (history) the sessions registered when it was called
    rm,         \* per object: position of the remove_session call that popped it
    lastOp,     \* how the last create_session or remove_session call ended
    buffer,     \* per object: PTYSession.buffer, the deque of completed lines
    pending,    \* per object: PTYSession._pending_output
    log,        \* per object: the lines written to the log file
    calls,      \* the run_command calls, by call number: locals and outcome
    fn          \* a call of strip_ansi_codes or _filter_command_echo on its
                \* own: the arguments, times applied, the value returned

regVars == <<sessions, sess, nextObj, now, reaper, mgr, rm, lastOp>>

cmdVars == <<buffer, pending, log, calls, fn>>

vars == <<regVars, cmdVars>>

\* ------------------------------------------------------- the sessions dict
Keys(M) == {M[i].id : i \in 1..Len(M)}

IndexOf(M, id) == CHOOSE i \in 1..Len(M) : M[i].id = id

\* the session objects the dict holds
Registered(M) == {M[i].obj : i \in 1..Len(M)}

\* (mutant) an unknown id gets the first session of the map
get_session_FirstIfAbsent(M, id) ==
    IF id \in Keys(M) THEN M[IndexOf(M, id)].obj
    ELSE IF M # <<>> THEN M[1].obj ELSE NoObj

\* self.sessions.get(session_id)
get_session(M, id) == IF id \in Keys(M) THEN M[IndexOf(M, id)].obj ELSE NoObj

\* self.sessions[session_id] = session
DictSet(M, id, o) ==
    IF id \in Keys(M)
    THEN [M EXCEPT ![IndexOf(M, id)] = [id |-> id, obj |-> o]]
    ELSE Append(M, [id |-> id, obj |-> o])

\* the dict without the key (del / pop of a present key)
DictDel_Keeps(M, id) == M

DictDel(M, id) == SelectSeq(M, LAMBDA e : e.id # id)

\* ------------------------------------------------------- PTYSession objects
\* SessionConfig.sentinel_command, "echo {sentinel}"
sentinel_command == <<"e", " ", "{sentinel}">>

\* closes counts the os.close calls issued on the session's fd number and
\* stopped tells that a stop() call has returned: both are history.
\* reading tells that a worker thread is inside _read_chunk.
\* session_id is the id the object was created with, fd the number of its
\* master fd (0: none).
Unborn == [born |-> FALSE, running |-> FALSE, reader |-> "none",
           reading |-> FALSE, fdOpen |-> FALSE, child |-> "none",
           last_activity |-> 0, timeout_session |-> 0,
           sentinel_command |-> <<>>, closes |-> 0, stopped |-> FALSE,
           session_id |-> 0, fd |-> 0]

\* PTYSession(...) followed by start() in the parent: pid and fd recorded,
\* _running set, the reader task created
Started(t, tmo) ==
    [born |-> TRUE, running |-> TRUE, reader |-> "active",
     reading |-> FALSE, fdOpen |-> TRUE, child |-> "running",
     last_activity |-> t, timeout_session |-> tmo,
     sentinel_command |-> sentinel_command, closes |-> 0, stopped |-> FALSE,
     session_id |-> 0, fd |-> 0]

\* os.kill(pid, 0) succeeds as long as the pid exists: a child that has
\* exited but was not waited for (a zombie) still counts
is_alive(s) == s.child # "reaped"

\* os.kill(pid, sig) raises ProcessLookupError once the child was reaped
KillRaises(s) == s.child = "reaped"

\* stop(), first segment: _running = False; cancel the reader.
StopSeg1(s) ==
    [s EXCEPT !.running = FALSE,
              !.reader = IF @ = "active" THEN "cancelling" ELSE @]

\* "await self._read_task" suspends unless the task is already done
AwaitsReader_Never(s) == FALSE

AwaitsReader(s) == s.reader # "done"

\* stop(), second segment: close the log and the fd, send SIGTERM
StopSeg2(s) == [s EXCEPT !.fdOpen = FALSE, !.closes = @ + 1]

\* the SIGTERM went out, so "await asyncio.sleep(0.1)" suspends
AwaitsGrace(s) == ~KillRaises(s)

\* stop(), last segment: SIGKILL (skipped when SIGTERM raised),
\* then os.waitpid(pid, WNOHANG): reaps the child only if it has exited
StopSeg3(s) == [s EXCEPT !.child = IF @ = "zombie" THEN "reaped" ELSE @]

\* stop() run from the given point to its next suspension (or its return):
\* the session record and where the caller is left
StopFromSeg3(s) == [s |-> [StopSeg3(s) EXCEPT !.stopped = TRUE], at |-> "returned"]

StopFromSeg2(s) ==
    LET s2 == StopSeg2(s)
    IN IF AwaitsGrace(s2) THEN [s |-> s2, at |-> "grace"]
                          ELSE StopFromSeg3(s2)

StopEnter(s) ==
    LET s1 == StopSeg1(s)
    IN IF AwaitsReader(s1) THEN [s |-> s1, at |-> "awaitReader"]
                           ELSE StopFromSeg2(s1)

\* the caller of stop() resumes from the suspension it is at
StopResume(s, at) == IF at = "awaitReader" THEN StopFromSeg2(s) ELSE StopFromSeg3(s)

\* the suspension ended: the reader task is done / the 0.1 s have passed
CanResume(s, at) == at = "grace" \/ (at = "awaitReader" /\ s.reader = "done")

\* ------------------------------------------------------------ object lifetime
\* a whole stop() call on a session whose reader has finished, with nothing
\* else running in between
StopToEnd(s) == StopSeg3(StopSeg2(StopSeg1(s)))

\* what a caller can observe of a session: _running, the reader task, the
\* master fd and the child
Terminal(s) == <<s.running, s.reader, s.fdOpen, s.child>>

NoEntry == [id |-> 0, obj |-> NoObj]

\* something still holds a reference to object o: the dict, a remove_session
\* call inside stop(), the snapshot or loop variable of the reaper or of
\* SessionManager.stop(), the object's own reader task or the worker thread
\* that reads for it, or a run_command / send_keys call
Referenced(o, S, M, R, G, RM, C) ==
    \/ \E i \in 1..Len(M) : M[i].obj = o
    \/ RM[o] # "none"
    \/ S[o].reader \in {"active", "cancelling"}
    \/ S[o].reading
    \/ R.cur.obj = o
    \/ \E i \in 1..Len(R.queue) : R.queue[i].obj = o
    \/ G.cur = o
    \/ \E i \in 1..Len(G.queue) : G.queue[i] = o
    \/ \E k \in DOMAIN C : C[k].pc \in {"writing", "polling"} /\ C[k].obj = o

\* what is left of a freed object: the child process and, while it is open,
\* the fd
Freed(s) == [s EXCEPT !.running = FALSE, !.reader = "done",
                      !.last_activity = 0, !.timeout_session = 0,
                      !.sentinel_command = <<>>, !.session_id = 0,
                      !.fd = IF s.fdOpen THEN @ ELSE 0]

\* pty.fork() returns the master under the lowest fd number that is not
\* open; of the descriptors of the process only the masters are followed
LowestFreeFd(S) ==
    LET open == {S[p].fd : p \in {q \in Objs : S[q].fdOpen}}
    IN CHOOSE n \in 1..MaxObjs :
           n \notin open /\ \A m \in 1..(n - 1) : m \in open

\* "os.close(self.fd)" closes whatever descriptor holds the number now: the
\* stop() calls of this step (closes went up) that met their own fd closed
\* already close the master of the session that was given the number since
OsClose(S) ==
    [p \in Objs |->
        IF /\ S[p].fdOpen
           /\ \E o \in Objs \ {p} :
                  S[o].closes > sess[o].closes /\ S[o].fd = S[p].fd
        THEN [S[p] EXCEPT !.fdOpen = FALSE] ELSE S[p]]

\* the objects after the closes of this step took effect and the interpreter
\* freed the unreferenced ones
Collect(S, M, R, G, RM, C) ==
    LET T == OsClose(S)
    IN [o \in Objs |-> IF ~T[o].born \/ Referenced(o, T, M, R, G, RM, C)
                       THEN T[o] ELSE Freed(T[o])]

\* a call that has returned holds no position any more
CallAt(at) == IF at = "returned" THEN "none" ELSE at

\* ------------------------------------------------------------- text
\* Text is a sequence of characters.  The command text, the echo word of the
\* sentinel template and a call's sentinel are single symbols: "c", "e", "S1"...
\* "CR" "NL" "TAB" "ESC" "BEL" are the control characters of those names.
Whitespace == {" ", "CR", "NL", "TAB"}

Letters == {"a", "c", "e", "m"}

\* the regex class [0-9;]
CsiParams == {"0", ";"}

\* (mutant) the class without \x1b
ControlChars_NoEsc == {"BEL"}

\* the regex class [\x00-\x08\x0b-\x0c\x0e-\x1f\x7f]
ControlChars == {"ESC", "BEL"}

\* first position >= i of t that holds a character outside set
RECURSIVE SkipWhile(_, _, _)
SkipWhile(t, i, set) ==
    IF i <= Len(t) /\ t[i] \in set THEN SkipWhile(t, i + 1, set) ELSE i

\* first position >= i of t that holds ch, 0 if there is none
RECURSIVE FindFrom(_, _, _)
FindFrom(t, i, ch) ==
    IF i > Len(t) THEN 0
    ELSE IF t[i] = ch THEN i ELSE FindFrom(t, i + 1, ch)

\* ANSI_ESCAPE_PATTERN matched at the ESC in position i: the position of the
\* last character of the match, 0 if the pattern does not match there
EscapeEnd(t, i) ==
    IF i + 1 > Len(t) THEN 0
    ELSE LET c == t[i + 1]
         IN CASE c = "[" ->
                   LET j == SkipWhile(t, i + 2, CsiParams)
                   IN IF j <= Len(t) /\ t[j] \in Letters THEN j ELSE 0
              [] c = "]" ->
                   LET b == FindFrom(t, i + 2, "BEL")
                       e == FindFrom(t, i + 2, "ESC")
                   IN IF b # 0 THEN b
                      ELSE IF e # 0 /\ e + 1 <= Len(t) /\ t[e + 1] = "\\"
                           THEN e + 1 ELSE 0
              [] c \in {"(", ")"} ->
                   IF i + 2 <= Len(t) /\ t[i + 2] \in Letters \cup {"0"}
                   THEN i + 2 ELSE 0
              [] c \in {"=", ">"} -> i + 1
              [] OTHER -> 0

\* ANSI_ESCAPE_PATTERN.sub('', text), from position i on
RECURSIVE SubEscapes(_, _)
SubEscapes(t, i) ==
    IF i > Len(t) THEN <<>>
    ELSE IF t[i] = "ESC" /\ EscapeEnd(t, i) # 0
         THEN SubEscapes(t, EscapeEnd(t, i) + 1)
         ELSE <<t[i]>> \o SubEscapes(t, i + 1)

\* (mutant) only the escape sequences are taken out
strip_ansi_codes_EscapesOnly(text) == SubEscapes(text, 1)

\* escape sequences out, then the control characters other than \n \r \t
strip_ansi_codes(text) ==
    SelectSeq(SubEscapes(text, 1), LAMBDA ch : ch \notin ControlChars)

\* str.strip()
RECURSIVE LStrip(_)
LStrip(t) == IF t # <<>> /\ Head(t) \in Whitespace THEN LStrip(Tail(t)) ELSE t

RECURSIVE RStrip(_)
RStrip(t) ==
    IF t # <<>> /\ t[Len(t)] \in Whitespace
    THEN RStrip(SubSeq(t, 1, Len(t) - 1)) ELSE t

strip(t) == RStrip(LStrip(t))

\* str.endswith(suffix)
endswith(t, suffix) ==
    /\ Len(suffix) <= Len(t)
    /\ SubSeq(t, Len(t) - Len(suffix) + 1, Len(t)) = suffix

\* "sentinel in line"
Contains(line, sentinel) == \E i \in 1..Len(line) : line[i] = sentinel

\* template.format(sentinel=sentinel)
Format(template, sentinel) ==
    [i \in 1..Len(template) |->
        IF template[i] = "{sentinel}" THEN sentinel ELSE template[i]]

\* "\n".join(lines)
RECURSIVE Join(_)
Join(lines) ==
    IF lines = <<>> THEN <<>>
    ELSE IF Len(lines) = 1 THEN lines[1]
    ELSE lines[1] \o <<"NL">> \o Join(Tail(lines))

\* list[start:]
SliceFrom(list, start) == SubSeq(list, start + 1, Len(list))

\* list[:stop]
SliceTo(list, stop) == SubSeq(list, 1, stop)

\* ------------------------------------------------------------------- Init
\* a run_command call that was not issued yet
IdleCall ==
    [pc |-> "idle", kind |-> "none", obj |-> NoObj, command |-> <<>>, sentinel_cmd |-> <<>>,
     start_buffer_len |-> 0, logBase |-> 0, output_lines |-> <<>>,
     start_time |-> 0, timeout |-> 0, output |-> <<>>, result |-> "none"]

\* no function call under study
NoFn ==
    [op |-> "none", text |-> <<>>, lines |-> <<>>, command |-> <<>>,
     sentinel_cmd |-> <<>>, n |-> <<>>, applied |-> 0, result |-> <<>>,
     completed |-> "none"]

\* SessionManager(max_sessions=capacity), started, no session yet
Constructed(capacity) ==
    /\ sessions = <<>>
    /\ sess = [o \in Objs |-> Unborn]
    /\ nextObj = 0
    /\ now = 0
    /\ reaper = [pc |-> "sleep", wakeAt |-> ReaperPeriod, rnow |-> 0,
                 queue |-> <<>>, cur |-> NoEntry, cancelReq |-> FALSE]
    /\ mgr = [pc |-> "idle", queue |-> <<>>, cur |-> NoObj, atCall |-> {},
              max_sessions |-> capacity]
    /\ rm = [o \in Objs |-> "none"]
    /\ lastOp = "none"
    /\ buffer = [o \in Objs |-> <<>>]
    /\ pending = [o \in Objs |-> <<>>]
    /\ log = [o \in Objs |-> <<>>]
    /\ calls = [k \in CallIds |-> IdleCall]
    /\ fn = NoFn

Init == Constructed(max_sessions)

\* ------------------------------------------------------------- run_server
\* run_server serves tool calls until the transport closes and only then
\* calls SessionManager.stop(): tool calls arrive while stop() was not called
Serving == mgr.pc = "idle"

\* no tool handler is still running (every remove_session call has returned)
HandlersDone == \A o \in Objs : rm[o] = "none"

\* ------------------------------------------------- SessionManager.create_session
\* (mutant) the capacity test lets one session too many in
AtCapacity_OffByOne(M) == Len(M) > mgr.max_sessions

\* the capacity test of create_session
AtCapacity(M) == Len(M) >= mgr.max_sessions

\* (mutant) the session is started before the capacity test
CreateSession_LateCheck ==
    /\ Serving
    /\ nextObj < MaxObjs
    /\ \E id \in Ids, tmo \in 0..MaxTimeout :
           LET o == nextObj + 1
           IN /\ sess' = [sess EXCEPT ![o] =
                            [Started(now, tmo) EXCEPT
                                 !.session_id = id,
                                 !.fd = LowestFreeFd(sess)]]
              /\ nextObj' = o
              /\ IF AtCapacity(sessions)
                 THEN /\ lastOp' = "CapacityError"
                      /\ UNCHANGED sessions
                 ELSE /\ sessions' = DictSet(sessions, id, o)
                      /\ lastOp' = "ok"
    /\ UNCHANGED <<now, reaper, mgr, rm, cmdVars>>

\* "session = PTYSession(session_id=...); await session.start();
\* self.sessions[session_id] = session".  exec_ok tells whether the execvp in
\* the forked child succeeds: it fails inside the child process, start() in
\* the parent has already returned from pty.fork() and goes on the same way.
StartAndInsert(id, tmo, exec_ok) ==
    LET o == nextObj + 1
    IN /\ sess' = [sess EXCEPT ![o] =
                     [Started(now, tmo) EXCEPT !.session_id = id,
                                               !.fd = LowestFreeFd(sess)]]
       /\ nextObj' = o
       /\ sessions' = DictSet(sessions, id, o)
       /\ lastOp' = "ok"

\* create_session: refuse on a full registry, else construct and start a
\* session under a random id and insert it
CreateSession ==
    /\ Serving
    /\ AtCapacity(sessions) \/ nextObj < MaxObjs
    /\ IF AtCapacity(sessions)
       THEN /\ lastOp' = "CapacityError"
            /\ UNCHANGED <<sessions, sess, nextObj>>
       ELSE \E id \in Ids, tmo \in 0..MaxTimeout, exec_ok \in BOOLEAN :
                StartAndInsert(id, tmo, exec_ok)
    /\ UNCHANGED <<now, reaper, mgr, rm, cmdVars>>

\* ------------------------------------------------- SessionManager.remove_session
\* pop the entry, then stop the session; the call is left where stop() suspends.
\* An absent id returns False at once, a popped one returns True after stop().
remove_session(id) ==
    /\ Serving
    /\ LET o == get_session(sessions, id)
       IN IF o = NoObj
          THEN /\ lastOp' = "False"
               /\ UNCHANGED <<sessions, sess, rm>>
          ELSE LET r == StopEnter(sess[o])
               IN /\ sessions' = DictDel(sessions, id)
                  /\ rm' = [rm EXCEPT ![o] = CallAt(r.at)]
                  /\ sess' = Collect([sess EXCEPT ![o] = r.s], sessions',
                                     reaper, mgr, rm', calls)
                  /\ lastOp' = IF r.at = "returned" THEN "True" ELSE lastOp
    /\ UNCHANGED <<nextObj, now, reaper, mgr, cmdVars>>

RemoveSession == \E id \in Ids : remove_session(id)

\* the remove_session call resumes inside stop() and runs on
RemoveResume ==
    /\ \E o \in Objs :
           /\ rm[o] \in {"awaitReader", "grace"}
           /\ CanResume(sess[o], rm[o])
           /\ LET r == StopResume(sess[o], rm[o])
              IN /\ rm' = [rm EXCEPT ![o] = CallAt(r.at)]
                 /\ sess' = Collect([sess EXCEPT ![o] = r.s], sessions,
                                    reaper, mgr, rm', calls)
                 /\ lastOp' = IF r.at = "returned" THEN "True" ELSE lastOp
    /\ UNCHANGED <<sessions, nextObj, now, reaper, mgr, cmdVars>>

\* ------------------------------------------------------- reader task, child
\* the cancelled _read_loop gets its CancelledError and ends
ReaderExit ==
    /\ \E o \in Objs :
           /\ sess[o].reader = "cancelling"
           /\ sess' = Collect([sess EXCEPT ![o].reader = "done"], sessions,
                              reaper, mgr, rm, calls)
    /\ UNCHANGED <<sessions, nextObj, now, reaper, mgr, rm, lastOp, cmdVars>>

\* the child process exits (by itself, on the hangup of its terminal or on a
\* signal); until somebody waits for it, it stays a zombie
ChildExit ==
    /\ \E o \in Objs :
           /\ sess[o].child = "running"
           /\ sess' = [sess EXCEPT ![o].child = "zombie"]
    /\ UNCHANGED <<sessions, nextObj, now, reaper, mgr, rm, lastOp, cmdVars>>

\* ---------------------------------------------------------- tool send_keys
\* _send_keys: look the session up, os.write to its fd, bump last_activity.
\* The write raises OSError on a closed fd; the master of a PTY whose child
\* has exited still takes the bytes.
SendKeys ==
    /\ Serving
    /\ \E id \in Ids :
           LET o == get_session(sessions, id)
           IN IF o = NoObj
              THEN UNCHANGED sess
              ELSE IF sess[o].fdOpen
                   THEN sess' = [sess EXCEPT ![o].last_activity = now]
                   ELSE UNCHANGED sess
    /\ UNCHANGED <<sessions, nextObj, now, reaper, mgr, rm, lastOp, cmdVars>>

\* ------------------------------------------------ SessionManager._cleanup_loop
\* the reaper's test "idle_seconds > session.config.timeout_session"
IsIdle(s, t) == t - s.last_activity > s.timeout_session

\* the body of the for loop, run until the reaper suspends inside a stop(),
\* dies on "del self.sessions[session_id]", or finishes the snapshot
RECURSIVE ReaperSweep(_, _, _, _)
\* "del self.sessions[session_id]": KeyError if the id is no longer a key
ReaperDel(e, rest, S, M, t) ==
    IF e.id \in Keys(M)
    THEN ReaperSweep(rest, S, DictDel(M, e.id), t)
    ELSE [pc |-> "failed", queue |-> <<>>, cur |-> NoEntry, sess |-> S, sessions |-> M]

\* where "await session.stop()" left the reaper
ReaperAfterStop(e, r, rest, S, M, t) ==
    LET S2 == [S EXCEPT ![e.obj] = r.s]
    IN IF r.at = "returned"
       THEN ReaperDel(e, rest, S2, M, t)
       ELSE [pc |-> r.at, queue |-> rest, cur |-> e, sess |-> S2, sessions |-> M]

ReaperSweep(queue, S, M, t) ==
    IF queue = <<>>
    THEN [pc |-> "sleep", queue |-> <<>>, cur |-> NoEntry, sess |-> S, sessions |-> M]
    ELSE LET e == Head(queue)
             s == S[e.obj]
         IN IF IsIdle(s, t) \/ ~is_alive(s)
            THEN ReaperAfterStop(e, StopEnter(s), Tail(queue), S, M, t)
            ELSE ReaperSweep(Tail(queue), S, M, t)

\* the 60 s sleep is over and nobody cancelled the task
ReaperDue == reaper.pc = "sleep" /\ ~reaper.cancelReq /\ now >= reaper.wakeAt

\* wake up: now = datetime.now(); iterate list(self.sessions.items())
ReaperWake ==
    /\ ReaperDue
    /\ LET res == ReaperSweep(sessions, sess, sessions, now)
       IN /\ reaper' = [pc |-> res.pc, wakeAt |-> now + ReaperPeriod, rnow |-> now,
                        queue |-> res.queue, cur |-> res.cur, cancelReq |-> FALSE]
          /\ sessions' = res.sessions
          /\ sess' = Collect(res.sess, sessions', reaper', mgr, rm, calls)
    /\ UNCHANGED <<nextObj, now, mgr, rm, lastOp, cmdVars>>

\* the reaper resumes inside the stop() it awaits.  A cancel that arrives
\* while it waits for the reader task is raised at "await self._read_task"
\* and caught there by "except asyncio.CancelledError: pass".
ReaperResume ==
    /\ reaper.pc \in {"awaitReader", "grace"}
    /\ CanResume(sess[reaper.cur.obj], reaper.pc)
    /\ reaper.pc = "grace" => ~reaper.cancelReq
    /\ LET r == StopResume(sess[reaper.cur.obj], reaper.pc)
           res == ReaperAfterStop(reaper.cur, r, reaper.queue, sess, sessions,
                                  reaper.rnow)
       IN /\ reaper' = [reaper EXCEPT !.pc = res.pc, !.queue = res.queue,
                                      !.cur = res.cur, !.cancelReq = FALSE]
          /\ sessions' = res.sessions
          /\ sess' = Collect(res.sess, sessions', reaper', mgr, rm, calls)
    /\ UNCHANGED <<nextObj, now, mgr, rm, lastOp, cmdVars>>

\* a cancel that arrives while the reaper sleeps (the 60 s, or the 0.1 s grace
\* inside stop()) ends the task
ReaperCancelled ==
    /\ reaper.pc \in {"sleep", "grace"}
    /\ reaper.cancelReq
    /\ reaper' = [reaper EXCEPT !.pc = "cancelled", !.cancelReq = FALSE,
                                !.queue = <<>>, !.cur = NoEntry]
    /\ sess' = Collect(sess, sessions, reaper', mgr, rm, calls)
    /\ UNCHANGED <<sessions, nextObj, now, mgr, rm, lastOp, cmdVars>>

\* ------------------------------------------------------ SessionManager.stop
\* "for session in list(self.sessions.values()): await session.stop()",
\* run until a stop() suspends; after the loop, self.sessions.clear()
RECURSIVE MgrSweep(_, _)
MgrSweep(queue, S) ==
    IF queue = <<>>
    THEN [pc |-> "done", queue |-> <<>>, cur |-> NoObj, sess |-> S]
    ELSE LET o == Head(queue)
             r == StopEnter(S[o])
             S2 == [S EXCEPT ![o] = r.s]
         IN IF r.at = "returned"
            THEN MgrSweep(Tail(queue), S2)
            ELSE [pc |-> r.at, queue |-> Tail(queue), cur |-> o, sess |-> S2]

MgrAfter(res) ==
    /\ mgr' = [mgr EXCEPT !.pc = res.pc, !.queue = res.queue, !.cur = res.cur]
    /\ sessions' = IF res.pc = "done" THEN <<>> ELSE sessions
    /\ sess' = Collect(res.sess, sessions', reaper, mgr', rm, calls)

\* the reaper task is finished: awaiting it returns at once
ReaperTaskDone == reaper.pc \in {"failed", "cancelled"}

\* awaiting the finished reaper task raises what ended it: CancelledError is
\* caught by stop(), the KeyError of a failed del is not
AwaitReaperRaises == reaper.pc = "failed"

\* stop() is called: cancel the reaper task and await it
Shutdown ==
    /\ mgr.pc = "idle"
    /\ HandlersDone
    /\ IF ReaperTaskDone
       THEN /\ mgr' = [mgr EXCEPT !.pc = "raised", !.atCall = Registered(sessions)]
            /\ UNCHANGED reaper
       ELSE /\ mgr' = [mgr EXCEPT !.pc = "awaitReaper",
                                  !.atCall = Registered(sessions)]
            /\ reaper' = [reaper EXCEPT !.cancelReq = TRUE]
    /\ UNCHANGED <<sessions, sess, nextObj, now, rm, lastOp, cmdVars>>

\* the awaited reaper task has ended
ShutdownReaperDone ==
    /\ mgr.pc = "awaitReaper"
    /\ ReaperTaskDone
    /\ IF AwaitReaperRaises
       THEN /\ mgr' = [mgr EXCEPT !.pc = "raised"]
            /\ UNCHANGED <<sess, sessions>>
       ELSE MgrAfter(MgrSweep([i \in 1..Len(sessions) |-> sessions[i].obj], sess))
    /\ UNCHANGED <<nextObj, now, reaper, rm, lastOp, cmdVars>>

\* stop() resumes inside the session.stop() it awaits
ShutdownResume ==
    /\ mgr.pc \in {"awaitReader", "grace"}
    /\ CanResume(sess[mgr.cur], mgr.pc)
    /\ LET r == StopResume(sess[mgr.cur], mgr.pc)
           S2 == [sess EXCEPT ![mgr.cur] = r.s]
       IN IF r.at = "returned"
          THEN MgrAfter(MgrSweep(mgr.queue, S2))
          ELSE /\ mgr' = [mgr EXCEPT !.pc = r.at]
               /\ sess' = S2
               /\ UNCHANGED sessions
    /\ UNCHANGED <<nextObj, now, reaper, rm, lastOp, cmdVars>>

\* ------------------------------------------------------------------ clock
\* Time passes.  Timers fire on time: the clock does not run past a due
\* reaper, and a sweep (10 ms and 100 ms waits) takes no reaper period.
Tick ==
    /\ now < MaxNow
    /\ ~ReaperDue
    /\ reaper.pc \notin {"awaitReader", "grace"}
    /\ now' = now + 1
    /\ UNCHANGED <<sessions, sess, nextObj, reaper, mgr, rm, lastOp, cmdVars>>

\* ------------------------------------------------------ the command session
\* the command texts the calls send
Commands == {<<"c">>}

\* the timeouts the calls pass, in poll intervals
Timeouts == 1..MaxTimeout

\* f"__PTY_DONE_{uuid.uuid4().hex[:8]}__": a fresh symbol for every call
Sentinel(k) == <<"S1", "S2", "S3", "S4">>[k]

\* one session, created and started at time 0, nothing printed yet
OneSession ==
    /\ sessions = <<[id |-> 1, obj |-> 1]>>
    /\ sess = [o \in Objs |->
                  IF o = 1
                  THEN [Started(0, ReaperPeriodInPolls) EXCEPT !.session_id = 1,
                                                              !.fd = 1]
                  ELSE Unborn]
    /\ nextObj = 1
    /\ now = 0
    /\ reaper = [pc |-> "sleep", wakeAt |-> ReaperPeriodInPolls, rnow |-> 0,
                 queue |-> <<>>, cur |-> NoEntry, cancelReq |-> FALSE]
    /\ mgr = [pc |-> "idle", queue |-> <<>>, cur |-> NoObj, atCall |-> {},
              max_sessions |-> max_sessions]
    /\ rm = [o \in Objs |-> "none"]
    /\ lastOp = "ok"
    /\ buffer = [o \in Objs |-> <<>>]
    /\ pending = [o \in Objs |-> <<>>]
    /\ log = [o \in Objs |-> <<>>]
    /\ calls = [k \in CallIds |-> IdleCall]

InitCmd == OneSession /\ fn = NoFn

\* ---------------------------------------------------- PTYSession._read_loop
\* the bytes of call k reached the PTY
Written(k) == calls[k].pc = "polling" \/ calls[k].result \in {"completed", "timeout"}

\* What one os.read can deliver from the child of session o: a line of
\* ordinary output, plain or coloured, a colour reset alone, and, for every call whose bytes reached
\* the PTY, the terminal's echo of those bytes (the command line, then the
\* sentinel command behind a prompt) and the sentinel printed by the sentinel
\* command, if that command names the sentinel.
ChildOutput(o) ==
    {<<"a", "CR", "NL">>, <<"ESC", "[", "0", "m", "a", "CR", "NL">>,
     <<"ESC", "[", "0", "m">>}
    \cup UNION {{calls[k].command \o <<"CR", "NL">>
                     \o <<"$", " ">> \o calls[k].sentinel_cmd \o <<"CR", "NL">>}
                \cup (IF Contains(calls[k].sentinel_cmd, Sentinel(k))
                      THEN {<<Sentinel(k), "CR", "NL">>} ELSE {}) :
                k \in {j \in CallIds : Written(j) /\ calls[j].obj = o}}

\* "while '\n' in pending: line, pending = pending.split('\n', 1)":
\* the completed lines and what stays pending
RECURSIVE SplitLines(_)
SplitLines(p) ==
    LET i == FindFrom(p, 1, "NL")
    IN IF i = 0 THEN [lines |-> <<>>, rest |-> p]
       ELSE LET r == SplitLines(SubSeq(p, i + 1, Len(p)))
            IN [lines |-> <<SubSeq(p, 1, i - 1)>> \o r.lines, rest |-> r.rest]

\* (mutant) a full buffer refuses the new line
RECURSIVE DequeExtend_KeepsOldest(_, _)
DequeExtend_KeepsOldest(b, lines) ==
    IF lines = <<>> THEN b
    ELSE DequeExtend_KeepsOldest(IF Len(b) >= buffer_size THEN b
                                 ELSE Append(b, Head(lines)), Tail(lines))

\* deque(maxlen=buffer_size).append for each line in turn
RECURSIVE DequeExtend(_, _)
DequeExtend(b, lines) ==
    IF lines = <<>> THEN b
    ELSE LET b2 == Append(b, Head(lines))
         IN DequeExtend(IF Len(b2) > buffer_size THEN Tail(b2) ELSE b2, Tail(lines))

\* (mutant) the lines of a chunk are written last first
LogAppend_Reversed(l, lines) ==
    l \o [i \in 1..Len(lines) |-> lines[Len(lines) + 1 - i]]

\* "self._log_file.write(line + '\n')" for each completed line in turn: the
\* lines of the log file
LogAppend(l, lines) == l \o lines

\* the text of a log file with these lines
RECURSIVE LogText(_)
LogText(l) ==
    IF l = <<>> THEN <<>> ELSE Head(l) \o <<"NL">> \o LogText(Tail(l))

\* stop() has closed the log file; it does so in one go with the master fd
LogClosed(s) == s.born /\ ~s.fdOpen

\* "while self._running: data = await run_in_executor(None, self._read_chunk)":
\* the reader hands a chunk read to a worker thread, which starts on it
ReadChunkStart ==
    /\ \E o \in Objs :
         /\ sess[o].reader = "active"
         /\ sess[o].running
         /\ ~sess[o].reading
         /\ sess' = [sess EXCEPT ![o].reading = TRUE]
    /\ UNCHANGED <<sessions, nextObj, now, reaper, mgr, rm, lastOp, cmdVars>>

\* The worker thread has run _read_chunk and read chunk (<<>>: nothing to
\* read, or the read raised).  If the sanitized data is not empty and the
\* reader task has not been cancelled, the loop turn goes on: move the
\* completed lines into the buffer and the log, bump last_activity.
\* Otherwise nothing is kept.
ReadLoopTurn(o, chunk) ==
    LET data == strip_ansi_codes(chunk)
        r == SplitLines(pending[o] \o data)
    IN /\ sess[o].reading
       /\ IF sess[o].fdOpen /\ sess[o].reader = "active" /\ data # <<>>
          THEN /\ Len(log[o]) + Len(r.lines) <= MaxLines
               /\ pending' = [pending EXCEPT ![o] = r.rest]
               /\ buffer' = [buffer EXCEPT ![o] = DequeExtend(@, r.lines)]
               /\ log' = [log EXCEPT ![o] = LogAppend(@, r.lines)]
               /\ sess' = [sess EXCEPT ![o].reading = FALSE,
                                       ![o].last_activity = now]
          ELSE /\ sess' = Collect([sess EXCEPT ![o].reading = FALSE],
                                  sessions, reaper, mgr, rm, calls)
               /\ UNCHANGED <<buffer, pending, log>>
       /\ UNCHANGED <<sessions, nextObj, now, reaper, mgr, rm, lastOp, calls,
                      fn>>

ReadLoop ==
    \E o \in Objs :
        \E chunk \in ChildOutput(o) \cup {<<>>} : ReadLoopTurn(o, chunk)

\* --------------------------------------------------- PTYSession.run_command
InFlight(k) ==
    calls[k].kind = "run_command" /\ calls[k].pc \in {"writing", "polling"}

\* the for loop over new_lines: index of the first line that holds the
\* sentinel and is not the echo of the sentinel command, 0 if there is none
RECURSIVE FirstSentinelLine(_, _, _, _)
FirstSentinelLine(lines, i, sentinel, sentinel_cmd) ==
    IF i > Len(lines) THEN 0
    ELSE LET stripped == strip(lines[i])
         IN IF /\ Contains(lines[i], sentinel)
               /\ ~ \/ stripped = strip(sentinel_cmd)
                    \/ endswith(stripped, strip(sentinel_cmd))
            THEN i
            ELSE FirstSentinelLine(lines, i + 1, sentinel, sentinel_cmd)

\* (mutant) only the lines that are exactly an echo are dropped
filter_command_echo_EqualOnly(lines, command, sentinel_cmd) ==
    SelectSeq(lines,
              LAMBDA line : ~ \/ strip(line) = strip(command)
                              \/ strip(line) = strip(sentinel_cmd))

\* (mutant) only the echoes of the command are dropped
filter_command_echo_CommandOnly(lines, command, sentinel_cmd) ==
    SelectSeq(lines,
              LAMBDA line : ~ \/ strip(line) = strip(command)
                              \/ endswith(strip(line), strip(command)))

filter_command_echo(lines, command, sentinel_cmd) ==
    SelectSeq(lines,
              LAMBDA line :
                  LET stripped == strip(line)
                  IN ~ \/ stripped = strip(command)
                       \/ stripped = strip(sentinel_cmd)
                       \/ endswith(stripped, strip(command))
                       \/ endswith(stripped, strip(sentinel_cmd)))

\* (mutant) the loop never gives up
TimedOut_Never(c, t) == FALSE

\* "elapsed > timeout"
TimedOut(c, t) == t - c.start_time > c.timeout

\* the call is over: its locals are gone, its outcome stays
Ended(c, output, result) ==
    [c EXCEPT !.pc = "done", !.start_buffer_len = 0, !.logBase = 0,
              !.output_lines = <<>>, !.start_time = 0, !.timeout = 0,
              !.output = output, !.result = result]

\* one iteration of "while True", up to the return or the sleep
Iteration(c, k, buf, t) ==
    IF TimedOut(c, t)
    THEN Ended(c, Join(c.output_lines), "timeout")
    ELSE LET new_lines == SliceFrom(buf, c.start_buffer_len)
             i == FirstSentinelLine(new_lines, 1, Sentinel(k), c.sentinel_cmd)
         IN IF i # 0
            THEN Ended(c, Join(filter_command_echo(SliceTo(new_lines, i - 1),
                                                   c.command, c.sentinel_cmd)),
                       "completed")
            ELSE [c EXCEPT !.output_lines = new_lines]

\* (mutant) the snapshot is taken as if the buffer were empty
SnapshotLen_Zero(buf) == 0

\* "start_buffer_len = len(self.buffer)"
SnapshotLen(buf) == Len(buf)

\* tool run_command up to "await self._write": look the session up, make the
\* sentinel and the sentinel command, snapshot len(buffer), hand the write to
\* a worker thread.  Calls are numbered in the order they are issued.
\* An id that is not in the registry is answered "Session not found".
RunCommandOn(k, id) ==
    /\ Serving
    /\ calls[k].pc = "idle"
    /\ k > 1 => calls[k - 1].pc # "idle"
    /\ \E command \in Commands, timeout \in Timeouts :
         LET o == get_session(sessions, id)
         IN /\ now + timeout < MaxNow
            /\ IF o = NoObj
               THEN /\ lastOp' = "Session not found"
                    /\ UNCHANGED calls
               ELSE /\ calls' = [calls EXCEPT ![k] =
                      [IdleCall EXCEPT !.pc = "writing", !.obj = o,
                           !.kind = "run_command",
                           !.command = command,
                           !.sentinel_cmd = Format(sess[o].sentinel_command,
                                                   Sentinel(k)),
                           !.start_buffer_len = SnapshotLen(buffer[o]),
                           !.logBase = Len(log[o]),
                           !.timeout = timeout]]
                    /\ UNCHANGED lastOp
    /\ UNCHANGED <<sessions, sess, nextObj, now, reaper, mgr, rm,
                   buffer, pending, log, fn>>

\* a run_command call on a registered session
RunCommand(k) == \E id \in Keys(sessions) : RunCommandOn(k, id)

\* the keys a send_keys call writes
KeysSent == {<<"c">>}

\* tool send_keys up to "await self._write": look the session up and hand
\* the write of the keys to a worker thread.  It shares the numbering of the
\* calls with run_command.
SendKeysOn(k, id) ==
    /\ Serving
    /\ calls[k].pc = "idle"
    /\ k > 1 => calls[k - 1].pc # "idle"
    /\ \E keys \in KeysSent :
         LET o == get_session(sessions, id)
         IN IF o = NoObj
            THEN /\ lastOp' = "Session not found"
                 /\ UNCHANGED calls
            ELSE /\ calls' = [calls EXCEPT ![k] =
                      [IdleCall EXCEPT !.pc = "writing", !.obj = o,
                           !.kind = "send_keys", !.command = keys]]
                 /\ UNCHANGED lastOp
    /\ UNCHANGED <<sessions, sess, nextObj, now, reaper, mgr, rm,
                   buffer, pending, log, fn>>

\* a send_keys call on a registered session
SendKeysCall(k) == \E id \in Keys(sessions) : SendKeysOn(k, id)

\* tool get_buffer: look the session up and join its buffered lines; the
\* text goes to the caller and nothing is kept
GetBufferOn(id) ==
    /\ Serving
    /\ lastOp' = IF get_session(sessions, id) = NoObj
                 THEN "Session not found" ELSE lastOp
    /\ UNCHANGED <<sessions, sess, nextObj, now, reaper, mgr, rm, cmdVars>>

\* the templates a set_sentinel call may bring: "echo {sentinel}",
\* "print('{sentinel}')" and "echo", which has no placeholder
Templates == {sentinel_command, <<"p", "{sentinel}">>, <<"e">>}

\* (mutant) set_sentinel also re-materializes the sentinel command of the
\* calls in flight
SetSentinel_Rematerializes ==
    /\ Serving
    /\ \E id \in Ids, template \in Templates :
         LET o == get_session(sessions, id)
         IN IF o = NoObj
            THEN UNCHANGED <<sess, calls>>
            ELSE /\ sess' = [sess EXCEPT ![o].sentinel_command = template]
                 /\ calls' = [k \in CallIds |->
                        IF InFlight(k) /\ calls[k].obj = o
                        THEN [calls[k] EXCEPT !.sentinel_cmd =
                                                 Format(template, Sentinel(k))]
                        ELSE calls[k]]
    /\ UNCHANGED <<sessions, nextObj, now, reaper, mgr, rm, lastOp,
                   buffer, pending, log, fn>>

\* tool set_sentinel: look the session up and assign the template
SetSentinelOn(id) ==
    /\ Serving
    /\ \E template \in Templates :
         LET o == get_session(sessions, id)
         IN IF o = NoObj
            THEN /\ lastOp' = "Session not found"
                 /\ UNCHANGED sess
            ELSE /\ sess' = [sess EXCEPT ![o].sentinel_command = template]
                 /\ UNCHANGED lastOp
    /\ UNCHANGED <<sessions, nextObj, now, reaper, mgr, rm, cmdVars>>

\* a set_sentinel call on a registered session
SetSentinel == \E id \in Keys(sessions) : SetSentinelOn(id)

\* os.write has run in the worker thread.  It raises OSError on a closed fd
\* (the master of a PTY whose child has exited still takes the bytes);
\* otherwise _write bumps last_activity; send_keys bumps it again and returns,
\* run_command takes start_time and does its first iteration.
WriteDone(k) ==
    /\ calls[k].pc = "writing"
    /\ LET c == calls[k]
           o == c.obj
       IN IF sess[o].fdOpen
          THEN /\ calls' = [calls EXCEPT ![k] =
                      IF c.kind = "send_keys" THEN Ended(c, <<>>, "sent")
                      ELSE
                      Iteration([c EXCEPT !.pc = "polling", !.start_time = now],
                                k, buffer[o], now)]
               /\ sess' = Collect([sess EXCEPT ![o].last_activity = now],
                                  sessions, reaper, mgr, rm, calls')
          ELSE /\ calls' = [calls EXCEPT ![k] = Ended(c, <<>>, "OSError")]
               /\ sess' = Collect(sess, sessions, reaper, mgr, rm, calls')
    /\ UNCHANGED <<sessions, nextObj, now, reaper, mgr, rm, lastOp,
                   buffer, pending, log, fn>>

\* the 50 ms sleep is over: next iteration
Poll(k) ==
    /\ calls[k].pc = "polling"
    /\ calls' = [calls EXCEPT ![k] =
                    Iteration(calls[k], k, buffer[calls[k].obj], now)]
    /\ sess' = Collect(sess, sessions, reaper, mgr, rm, calls')
    /\ UNCHANGED <<sessions, nextObj, now, reaper, mgr, rm, lastOp,
                   buffer, pending, log, fn>>

\* A poll interval passes.  A write handed to a worker thread is done before
\* the clock gets so close to its end that the call could not time out.
CmdTick ==
    /\ now < MaxNow
    /\ \A k \in CallIds :
         calls[k].pc = "writing" => now + 1 + calls[k].timeout < MaxNow
    /\ now' = now + 1
    /\ UNCHANGED <<sessions, sess, nextObj, reaper, mgr, rm, lastOp, cmdVars>>

\* ---------------------------------------------------------------- claims
\* C1: in every reachable state the registry map holds at most max_sessions
\* sessions, whatever the interleaving of create, remove, reaper and shutdown.
C1_RegistryBound == Len(sessions) <= max_sessions

\* the registry is full while the reaper is suspended inside a stop()
C1_Witness ==
    /\ Len(sessions) = max_sessions
    /\ reaper.pc \in {"awaitReader", "grace"}

\* C2: a create called on a full registry raises the capacity error, forks no
\* child and leaves the registry map as it was.
C2_CapacityRefusal ==
    [][(CreateSession /\ Len(sessions) = max_sessions)
         => /\ lastOp' = "CapacityError"
            /\ nextObj' = nextObj
            /\ sess' = sess
            /\ sessions' = sessions]_vars

\* a create was refused on a full registry
C2_Witness ==
    /\ lastOp = "CapacityError"
    /\ Len(sessions) = max_sessions

\* C3: at most one run_command is in flight on a session at any time (a
\* second one would fail fast with BusyError and write nothing).
C3_OneCommandInFlight ==
    \A j, k \in CallIds :
        (InFlight(j) /\ InFlight(k) /\ calls[j].obj = calls[k].obj) => j = k

\* the lines appended to the buffer since the call's snapshot
AppendedSince(c) == SliceFrom(log[c.obj], c.logBase)

\* C4: an iteration that has not timed out returns completed exactly when,
\* among the lines appended since the snapshot, there is a line that holds the
\* sentinel and is not the echo of the sentinel command; the output is built
\* from exactly the appended lines before the first such line.
C4_CompletesAtFirstSentinelLine ==
    [][\A k \in CallIds :
         (Poll(k) /\ ~TimedOut(calls[k], now)) =>
             LET c == calls[k]
                 appended == AppendedSince(c)
                 i == FirstSentinelLine(appended, 1, Sentinel(k), c.sentinel_cmd)
             IN IF i # 0
                THEN /\ calls'[k].result = "completed"
                     /\ calls'[k].output =
                            Join(filter_command_echo(SliceTo(appended, i - 1),
                                                     c.command, c.sentinel_cmd))
                ELSE calls'[k].pc = "polling"]_vars

\* C5: the iteration that finds the timeout exceeded returns completed = false
\* and the join of all lines appended since the snapshot, as of that moment.
C5_TimeoutReturnsNewLines ==
    [][\A k \in CallIds :
         (Poll(k) /\ TimedOut(calls[k], now)) =>
             /\ calls'[k].result = "timeout"
             /\ calls'[k].output = Join(AppendedSince(calls[k]))]_vars

C7_IdleReapedEveryTick ==
    Serving =>
        \A i \in 1..Len(sessions) :
            LET s == sess[sessions[i].obj]
            IN now - s.last_activity <= s.timeout_session + ReaperPeriod

\* C8: an explicit remove that interleaves with the reaper's stop of the same
\* session does not hurt the reaper: its own removal of the id is a no-op and
\* the task keeps running.
C8_ReaperSurvivesRemove == reaper.pc # "failed"

\* C9: a reaper tick removes every registered session that is not idle but
\* whose child process is no longer running.
C9_DeadReapedByTick ==
    [][ReaperWake =>
         \A i \in 1..Len(sessions) :
             LET e == sessions[i]
                 s == sess[e.obj]
             IN (~IsIdle(s, now) /\ s.child # "running")
                    => (reaper'.pc # "sleep" \/ e.id \notin Keys(sessions'))]_vars

\* C10: SessionManager.stop() returns normally, with every session stopped
\* and the registry empty, also when the reaper task had already ended.
C10_ShutdownStopsAll ==
    /\ mgr.pc # "raised"
    /\ mgr.pc = "done" =>
           /\ sessions = <<>>
           /\ \A o \in mgr.atCall : ~sess[o].running /\ ~sess[o].fdOpen

\* list[-n:] for n >= 0: a start of -n counts from the end and stops at the
\* first item, a start of 0 is the first item
SliceLast(list, n) ==
    SliceFrom(list, IF n = 0 THEN 0
                    ELSE IF n < Len(list) THEN Len(list) - n ELSE 0)

\* PTYSession.get_buffer(lines) on a buffer holding buffer_list; the optional
\* argument is <<>> for None and <<n>> for a number
get_buffer(buffer_list, lines) ==
    Join(IF lines # <<>> THEN SliceLast(buffer_list, lines[1]) ELSE buffer_list)

\* the last n items of a list
LastN(list, n) ==
    SubSeq(list, Len(list) - (IF n < Len(list) THEN n ELSE Len(list)) + 1,
           Len(list))

C16_WritesInIssueOrder ==
    [][\A k \in CallIds :
          WriteDone(k) /\ sess[calls[k].obj].fdOpen =>
              \A j \in 1..(k - 1) :
                  ~ /\ calls[j].pc = "writing"
                    /\ calls[j].obj = calls[k].obj
                    /\ "send_keys" \in {calls[j].kind, calls[k].kind}
      ]_vars

\* C19: a step that changes the sentinel template of a registered session
\* changes nothing else: buffer, pending output, log, last_activity, every
\* other field of every session, the registry and the calls.  A call in
\* flight keeps the sentinel command it materialized, and a call that is
\* issued takes the template of that moment.
C19_SetSentinelFrame ==
    [][/\ (\E o \in Registered(sessions) \cap Registered(sessions') :
              sess'[o].sentinel_command # sess[o].sentinel_command)
          => /\ UNCHANGED <<sessions, nextObj, now, reaper, mgr, rm, cmdVars>>
             /\ \A o \in Objs :
                    [sess'[o] EXCEPT !.sentinel_command =
                                       sess[o].sentinel_command] = sess[o]
       /\ \A k \in CallIds :
              InFlight(k) => calls'[k].sentinel_cmd = calls[k].sentinel_cmd
       /\ \A k \in CallIds :
              RunCommand(k) /\ calls'[k].pc = "writing" =>
                  calls'[k].sentinel_cmd =
                      Format(sess[calls'[k].obj].sentinel_command, Sentinel(k))
      ]_vars

C19_Witness ==
    /\ InFlight(1) /\ InFlight(2) /\ calls[1].obj = calls[2].obj
    /\ calls[1].sentinel_cmd = Format(sentinel_command, Sentinel(1))
    /\ calls[2].sentinel_cmd = Format(<<"p", "{sentinel}">>, Sentinel(2))
    /\ sess[calls[1].obj].sentinel_command = <<"p", "{sentinel}">>

\* C20: the sentinel template of every registered session holds the
\* {sentinel} placeholder.
C20_TemplateHasPlaceholder ==
    \A o \in Registered(sessions) :
        Contains(sess[o].sentinel_command, "{sentinel}")

\* C17: no worker thread is inside a chunk read of a session whose master fd
\* stop() has closed.
C17_NoReadAfterClose ==
    \A o \in Objs : sess[o].reading => sess[o].fdOpen

\* C11: a stop() call on a session whose stop() has already returned leaves
\* the session as it was: same _running, reader, master fd and child state.
C11_StopIdempotent ==
    \A o \in Objs :
        sess[o].stopped => Terminal(StopToEnd(sess[o])) = Terminal(sess[o])

\* C12: over the life of a session the close of its master fd is issued at
\* most once, whoever calls stop().
C12_CloseAtMostOnce == \A o \in Objs : sess[o].closes <= 1

\* C13: once a stop() call has returned, the session is not running, its
\* master fd is closed and its child is reaped, so is_alive() is false.
C13_StoppedIsDead ==
    \A o \in Objs :
        sess[o].stopped =>
            ~sess[o].running /\ ~sess[o].fdOpen /\ ~is_alive(sess[o])

\* C14: remove_session(id) on an absent id returns False and changes neither
\* the registry nor any session; on a present id it pops the entry at once,
\* stops that session and returns True only when stop() has returned; True is
\* returned by no other call.
C14_RemoveContract ==
    [][/\ \A id \in Ids :
              remove_session(id) =>
                  IF id \in Keys(sessions)
                  THEN LET o == get_session(sessions, id)
                       IN /\ get_session(sessions', id) = NoObj
                          /\ ~sess'[o].running
                          /\ rm'[o] # "none" \/ lastOp' = "True"
                  ELSE /\ lastOp' = "False"
                       /\ sessions' = sessions
                       /\ sess' = sess
       /\ \A o \in Objs :
              rm[o] # "none" /\ rm'[o] = "none" =>
                  /\ lastOp' = "True"
                  /\ sess'[o].stopped
                  /\ o \notin Registered(sessions')
       /\ lastOp' = "True" /\ lastOp # "True" =>
              \E o \in Objs :
                  /\ o \in Registered(sessions) \/ rm[o] # "none"
                  /\ o \notin Registered(sessions')
                  /\ rm'[o] = "none"
                  /\ sess'[o].stopped
      ]_vars

C14_Witness ==
    /\ lastOp = "True"
    /\ sessions = <<>>
    /\ \E o \in Objs : sess[o].stopped /\ ~sess[o].fdOpen

\* C18: a running session has its one reader task alive, every started session
\* has a reader task, and the reader has ended when a stop() has returned.
C18_OneReader ==
    \A o \in Objs :
        /\ sess[o].born => sess[o].reader # "none"
        /\ sess[o].running => sess[o].reader = "active"
        /\ sess[o].stopped => sess[o].reader = "done"

C18_Witness ==
    \E o, p \in Objs :
        /\ sess[o].stopped /\ sess[o].reader = "done"
        /\ sess[p].running /\ sess[p].reader = "active"

\* C21: the write of a send_keys or run_command call on a session that is not
\* running (its stop() has begun) raises and sends nothing.
C21_WriteNeedsRunning ==
    [][\A k \in CallIds :
          WriteDone(k) /\ ~sess[calls[k].obj].running =>
              calls'[k].result = "OSError"
      ]_vars

\* C22: a create_session call whose child fails to exec its program ends
\* with a spawn error and inserts nothing into the registry.
C22_ExecFailureInsertsNothing ==
    [][\A id \in Ids, tmo \in 0..MaxTimeout :
          (CreateSession /\ ~AtCapacity(sessions)
               /\ StartAndInsert(id, tmo, FALSE)) =>
              (sessions' = sessions /\ lastOp' = "SpawnError")
      ]_vars

\* C23: no two session objects that exist at the same time were created with
\* the same id: create issues neither an id that is in the registry nor the
\* id of a removed session (here: one whose stop() is still running).
C23_IdsNeverReissued ==
    \A o, p \in Objs :
        (sess[o].born /\ sess[p].born /\ o # p) =>
            sess[o].session_id # sess[p].session_id

\* C24: last_activity never exceeds the current time and, as long as the
\* session object exists, never decreases; it is set to the current time by
\* every reader turn that read a non-empty chunk and by every write that
\* succeeded, and it changes in no other step.
C24_LastActivity ==
    [][\A o \in Objs :
          /\ sess'[o].last_activity <= now'
          /\ \/ sess'[o] = Freed(sess'[o])
             \/ /\ sess'[o].last_activity >= sess[o].last_activity
                /\ \A chunk \in ChildOutput(o) :
                       (/\ ReadLoopTurn(o, chunk)
                        /\ sess[o].fdOpen
                        /\ sess[o].reader = "active")
                           => sess'[o].last_activity = now
                /\ \A k \in CallIds :
                       (/\ WriteDone(k)
                        /\ calls[k].obj = o
                        /\ calls'[k].result # "OSError")
                           => sess'[o].last_activity = now
                /\ sess'[o].last_activity # sess[o].last_activity
                       => \/ \E chunk \in ChildOutput(o) : ReadLoopTurn(o, chunk)
                          \/ \E k \in CallIds : WriteDone(k) /\ calls[k].obj = o
      ]_vars

\* C25: run_command, send_keys, get_buffer, set_sentinel and stop_session
\* called with an id that is not in the registry answer "Session not found"
\* (stop_session: remove_session returns False) and change nothing else.
C25_NotFoundChangesNothing ==
    [][\A id \in Ids :
          id \notin Keys(sessions) =>
              /\ (\/ \E k \in CallIds : RunCommandOn(k, id)
                  \/ \E k \in CallIds : SendKeysOn(k, id)
                  \/ GetBufferOn(id)
                  \/ SetSentinelOn(id))
                     => /\ lastOp' = "Session not found"
                        /\ UNCHANGED <<sessions, sess, nextObj, now, reaper,
                                       mgr, rm, cmdVars>>
              /\ remove_session(id)
                     => /\ lastOp' = "False"
                        /\ UNCHANGED <<sessions, sess, nextObj, now, reaper,
                                       mgr, rm, cmdVars>>
      ]_vars

C25_Witness ==
    /\ lastOp = "Session not found"
    /\ Len(sessions) = 1
    /\ sess[sessions[1].obj].running
    /\ \E k \in CallIds : InFlight(k)

\* C26: in every step the log gains exactly the lines the buffer gains, in
\* the same order, and loses none, so that the buffer is always the tail of
\* the log; read back line by line, the text of the log gives these lines;
\* once stop() has closed the log nothing is written to it.
C26_LogIsHistory ==
    [][\A o \in Objs :
          LET new == SliceFrom(log'[o], Len(log[o]))
          IN /\ Len(log'[o]) >= Len(log[o])
             /\ SliceTo(log'[o], Len(log[o])) = log[o]
             /\ buffer'[o] = DequeExtend(buffer[o], new)
             /\ buffer'[o] = LastN(log'[o], Len(buffer'[o]))
             /\ SplitLines(LogText(log'[o])) = [lines |-> log'[o], rest |-> <<>>]
             /\ LogClosed(sess[o]) => log'[o] = log[o]
      ]_vars

C26_Witness ==
    \E o \in Objs :
        /\ sess[o].stopped /\ LogClosed(sess[o])
        /\ Len(log[o]) = MaxLines
        /\ buffer[o] = LastN(log[o], buffer_size)

\* ------------------------------------------- the text functions on their own
\* the characters of the texts explored
TextAlphabet == {"ESC", "[", "]", "0", "?", "=", "m", "a", "CR", "NL", "BEL"}

\* every text of at most n characters
RECURSIVE TextsUpTo(_)
TextsUpTo(n) ==
    IF n = 0 THEN {<<>>}
    ELSE LET shorter == TextsUpTo(n - 1)
         IN shorter \cup {Append(t, ch) : t \in shorter, ch \in TextAlphabet}

Texts == TextsUpTo(MaxText)

\* the commands explored, the empty one included
FilterCommands == {<<>>, <<"c">>, <<" ", "c", " ">>}

\* the lines explored: echoes of the command and of the sentinel command,
\* with and without a prompt and padding, and lines that are neither
FilterLines ==
    {<<>>, <<"c">>, <<"$", " ", "c">>, <<" ", "c", "CR">>, <<"c", "a">>,
     <<"a">>, <<"e", " ", "S1">>, <<"$", " ", "e", " ", "S1", "CR">>,
     <<"S1">>, <<"e", " ", "S1", "a">>}

RECURSIVE LineListsUpTo(_)
LineListsUpTo(n) ==
    IF n = 0 THEN {<<>>}
    ELSE LET shorter == LineListsUpTo(n - 1)
         IN shorter \cup {Append(l, line) : l \in shorter, line \in FilterLines}

\* the optional argument of get_buffer: omitted, or a number of lines from
\* none to more than any buffer explored holds
LinesArgs == {<<>>} \cup {<<n>> : n \in 0..(MaxFilterLines + 1)}

\* the arguments of the call under study
FnInputs ==
    {[NoFn EXCEPT !.op = "strip_ansi_codes", !.text = t] : t \in Texts}
    \cup
    {[NoFn EXCEPT !.op = "_filter_command_echo", !.lines = l, !.command = c,
                  !.sentinel_cmd = Format(sentinel_command, Sentinel(1))] :
        l \in LineListsUpTo(MaxFilterLines), c \in FilterCommands}
    \cup
    {[NoFn EXCEPT !.op = "get_buffer", !.lines = l, !.n = n] :
        l \in LineListsUpTo(MaxFilterLines), n \in LinesArgs}
    \cup
    {[NoFn EXCEPT !.op = "run_command", !.lines = l, !.command = c,
                  !.sentinel_cmd = Format(t, Sentinel(1))] :
        l \in LineListsUpTo(MaxFilterLines), c \in FilterCommands,
        t \in Templates}
    \cup
    {[NoFn EXCEPT !.op = "_read_loop", !.text = x[1], !.n = <<x[2]>>] :
        x \in {y \in Texts \X (1..(MaxText - 1)) : y[2] < Len(y[1])}}

InitText == OneSession /\ fn \in FnInputs

\* strip_ansi_codes(text), and then strip_ansi_codes of what it returned
StripAnsiCodes ==
    /\ fn.op = "strip_ansi_codes"
    /\ fn.applied < 2
    /\ fn' = [fn EXCEPT !.result = strip_ansi_codes(IF fn.applied = 0
                                                    THEN fn.text ELSE fn.result),
                        !.applied = @ + 1]
    /\ UNCHANGED <<regVars, buffer, pending, log, calls>>

\* self._filter_command_echo(lines, command, sentinel_cmd)
FilterCommandEcho ==
    /\ fn.op = "_filter_command_echo"
    /\ fn.applied = 0
    /\ fn' = [fn EXCEPT !.result = filter_command_echo(fn.lines, fn.command,
                                                       fn.sentinel_cmd),
                        !.applied = 1]
    /\ UNCHANGED <<regVars, buffer, pending, log, calls>>

\* one iteration of run_command's loop, before the timeout, of a call with
\* sentinel S1 that finds fn.lines appended since its snapshot
ScanNewLines ==
    /\ fn.op = "run_command"
    /\ fn.applied = 0
    /\ LET c == [IdleCall EXCEPT !.pc = "polling", !.kind = "run_command",
                                 !.command = fn.command,
                                 !.sentinel_cmd = fn.sentinel_cmd,
                                 !.timeout = 1]
           r == Iteration(c, 1, fn.lines, 0)
       IN fn' = [fn EXCEPT !.result = r.output, !.applied = 1,
                           !.completed = IF r.result = "completed"
                                         THEN "True" ELSE "none"]
    /\ UNCHANGED <<regVars, buffer, pending, log, calls>>

\* session.get_buffer(lines) on a buffer holding fn.lines
GetBuffer ==
    /\ fn.op = "get_buffer"
    /\ fn.applied = 0
    /\ fn' = [fn EXCEPT !.result = get_buffer(fn.lines, fn.n), !.applied = 1]
    /\ UNCHANGED <<regVars, buffer, pending, log, calls>>

\* the child prints the text and the reader receives it as one chunk
\* what one turn of _read_loop does with the chunk os.read returned:
\* _read_chunk sanitizes it; nothing happens when the result is empty,
\* otherwise _pending_output += data and every complete line is moved to the
\* buffer
Received(st, chunk) ==
    LET data == strip_ansi_codes(chunk)
        r == SplitLines(st.rest \o data)
    IN IF data # <<>> THEN [lines |-> st.lines \o r.lines, rest |-> r.rest]
                      ELSE st

\* the lines buffered and the text left pending after the reader of a fresh
\* session has read the given chunks, one os.read each
RECURSIVE ReadChunks(_)
ReadChunks(chunks) ==
    IF chunks = <<>> THEN [lines |-> <<>>, rest |-> <<>>]
    ELSE Received(ReadChunks(SubSeq(chunks, 1, Len(chunks) - 1)),
                  chunks[Len(chunks)])

\* the text cut in two after k characters
SplitAt(t, k) == <<SubSeq(t, 1, k), SubSeq(t, k + 1, Len(t))>>

\* the child's output fn.text arrives in two reads, cut after fn.n[1]
\* characters
ReadSplit ==
    /\ fn.op = "_read_loop"
    /\ fn.applied = 0
    /\ fn' = [fn EXCEPT !.result = ReadChunks(SplitAt(fn.text, fn.n[1])).lines,
                        !.applied = 1]
    /\ UNCHANGED <<regVars, buffer, pending, log, calls>>

ReadText ==
    /\ fn.op = "strip_ansi_codes"
    /\ pending[1] = <<>> /\ log[1] = <<>>
    /\ ReadLoopTurn(1, fn.text)

Next ==
    \/ CreateSession
    \/ RemoveSession
    \/ RemoveResume
    \/ SendKeys
    \/ ReaderExit
    \/ ChildExit
    \/ ReaperWake
    \/ ReaperResume
    \/ ReaperCancelled
    \/ Shutdown
    \/ ShutdownReaperDone
    \/ ShutdownResume
    \/ Tick

Spec == Init /\ [][Next]_vars

NextCmd ==
    \/ \E k \in CallIds : RunCommand(k)
    \/ \E k \in CallIds : WriteDone(k)
    \/ \E k \in CallIds : Poll(k)
    \/ ReadChunkStart
    \/ ReadLoop
    \/ CmdTick
    \/ \E id \in Keys(sessions) : remove_session(id)
    \/ RemoveResume
    \/ ReaderExit
    \/ ChildExit

\* The event loop runs every ready coroutine, the worker thread finishes its
\* write, and time passes.
SpecCmd ==
    /\ InitCmd
    /\ [][NextCmd]_vars
    /\ WF_vars(CmdTick)
    /\ \A k \in CallIds : WF_vars(WriteDone(k)) /\ WF_vars(Poll(k))

\* The command session with send_keys calls among the run_command calls.
NextIO ==
    \/ NextCmd
    \/ \E k \in CallIds : SendKeysCall(k)

SpecIO == InitCmd /\ [][NextIO]_vars

\* The command session with set_sentinel calls and without teardown.
NextTpl ==
    \/ \E k \in CallIds : RunCommand(k)
    \/ \E k \in CallIds : WriteDone(k)
    \/ \E k \in CallIds : Poll(k)
    \/ ReadChunkStart
    \/ ReadLoop
    \/ CmdTick
    \/ SetSentinel

SpecTpl == InitCmd /\ [][NextTpl]_vars

\* The five tools that take a session id, called with any id, registered or
\* not, and the steps their calls go on with.
NextTools ==
    \/ \E k \in CallIds, id \in Ids : RunCommandOn(k, id)
    \/ \E k \in CallIds, id \in Ids : SendKeysOn(k, id)
    \/ \E id \in Ids : GetBufferOn(id)
    \/ \E id \in Ids : SetSentinelOn(id)
    \/ RemoveSession
    \/ RemoveResume
    \/ ReaderExit
    \/ \E k \in CallIds : WriteDone(k)
    \/ \E k \in CallIds : Poll(k)
    \/ CmdTick

SpecTools == InitCmd /\ [][NextTools]_vars
\* the characters of a text
Chars(t) == {t[i] : i \in 1..Len(t)}

\* C27: the sanitizer is idempotent: applied to its own result it returns
\* that result unchanged, sanitize(sanitize(x)) = sanitize(x).
C27_SanitizeIdempotent ==
    [][(StripAnsiCodes /\ fn.applied = 1) => fn'.result = fn.result]_vars

\* a text that the first pass changes was sanitized twice
C27_Witness ==
    /\ fn.op = "strip_ansi_codes" /\ fn.applied = 2
    /\ "ESC" \in Chars(fn.text)
    /\ fn.result # <<>>
    /\ fn.result # fn.text

\* C28: ESC (0x1B) never occurs in what the sanitizer returns; hence it
\* occurs in no line of a session's buffer (nor in the text still pending or
\* the lines logged) and in no output of a run_command call.
C28_NoEscInOutput ==
    /\ (fn.op = "strip_ansi_codes" /\ fn.applied >= 1)
           => "ESC" \notin Chars(fn.result)
    /\ \A o \in Objs :
          /\ \A i \in 1..Len(buffer[o]) : "ESC" \notin Chars(buffer[o][i])
          /\ \A i \in 1..Len(log[o]) : "ESC" \notin Chars(log[o][i])
          /\ "ESC" \notin Chars(pending[o])
    /\ \A k \in CallIds : "ESC" \notin Chars(calls[k].output)

\* the reader buffered a line of a text that held an ESC outside any escape
\* sequence, and the sanitizer returned the rest of that text
C28_Witness ==
    /\ fn.op = "strip_ansi_codes" /\ fn.applied = 1
    /\ "ESC" \in Chars(strip_ansi_codes_EscapesOnly(fn.text))
    /\ buffer[1] # <<>> /\ buffer[1][1] # <<>>
    /\ fn.result # <<>>

\* C29: the sanitizer resolves carriage returns: its result holds no CR,
\* and of a text of one line (printable characters and CRs, no newline) it
\* returns the last non-empty piece between CRs ('A\rB\rC' gives 'C', a
\* trailing CR keeps the text before it).
C29_CarriageReturns ==
    (fn.op = "strip_ansi_codes" /\ fn.applied = 1) =>
        /\ "CR" \notin Chars(fn.result)
        /\ Chars(fn.text) \subseteq {"a", "m", "0", "CR"} =>
              LET t == fn.text
                  last == IF \E i \in 1..Len(t) : t[i] # "CR"
                          THEN CHOOSE i \in 1..Len(t) :
                                  /\ t[i] # "CR"
                                  /\ \A j \in (i + 1)..Len(t) : t[j] = "CR"
                          ELSE 0
                  first == IF last = 0 THEN 1
                           ELSE CHOOSE i \in 1..last :
                                   /\ \A j \in i..last : t[j] # "CR"
                                   /\ i > 1 => t[i - 1] = "CR"
              IN fn.result = SubSeq(t, first, last)

\* C30: echo filtering drops a line iff the line, stripped, is the stripped
\* command or the stripped sentinel command or something followed by one of
\* them; the lines it returns are exactly the others, each once, in their
\* order.  This holds for every command, the empty one included.
C30_EchoFilter ==
    (fn.op = "_filter_command_echo" /\ fn.applied = 1) =>
        LET Echo(line) ==
                \E e \in {strip(fn.command), strip(fn.sentinel_cmd)} :
                    \E n \in 0..Len(strip(line)) :
                        SubSeq(strip(line), n + 1, Len(strip(line))) = e
            kept == {i \in 1..Len(fn.lines) : ~Echo(fn.lines[i])}
        IN /\ Len(fn.result) = Cardinality(kept)
           /\ \A i \in kept :
                 fn.result[Cardinality({h \in kept : h <= i})] = fn.lines[i]

\* of two lines the prompt-prefixed echo of the command was dropped and the
\* other one returned
C30_Witness ==
    /\ fn.op = "_filter_command_echo" /\ fn.applied = 1
    /\ fn.command = <<"c">>
    /\ fn.lines = <<<<"$", " ", "c">>, <<"c", "a">>>>
    /\ fn.result = <<<<"c", "a">>>>

\* C31: a read of the master fd that ends in EOF or a fatal I/O error (the
\* child is gone and nothing is left to read) makes the reader leave its
\* loop, so that it polls the fd no more; the registry keeps the session.
C31_ReaderLeavesLoopOnEOF ==
    [][\A o \in Objs :
          (/\ sess[o].child # "running"
           /\ sess[o].fdOpen /\ sess[o].running /\ sess[o].reader = "active"
           /\ ReadLoopTurn(o, <<>>))
          => /\ sess'[o].reader = "done"
             /\ sessions' = sessions
      ]_vars

\* C32: a CSI sequence is removed in full: of a text that is ESC, '[', any
\* parameters drawn from digits, ';' and '?', and one final letter (ESC[0m,
\* ESC[?m, ESC[0?a, ...) the sanitizer leaves no character.
C32_CsiRemoved ==
    LET t == fn.text
    IN (/\ fn.op = "strip_ansi_codes" /\ fn.applied = 1
        /\ Len(t) >= 3
        /\ t[1] = "ESC" /\ t[2] = "["
        /\ \A i \in 3..(Len(t) - 1) : t[i] \in {"0", ";", "?"}
        /\ t[Len(t)] \in Letters)
       => fn.result = <<>>

\* C33: get_buffer(n) returns the last min(n, buffer length) buffered lines,
\* in order and joined by newlines, for every n >= 0, hence nothing for
\* n = 0; with n omitted it returns the whole buffer; the buffer stays as
\* it was.
C33_GetBufferLastN ==
    [][GetBuffer =>
          /\ fn'.result = Join(IF fn.n = <<>> THEN fn.lines
                               ELSE LastN(fn.lines, fn.n[1]))
          /\ fn'.lines = fn.lines
          /\ buffer' = buffer
      ]_vars

\* C34: whenever a call is polling before its timeout and the sentinel's
\* output line has been appended since the command was written and is the
\* newest line of the buffer, the iteration that runs now returns
\* completed = true, whatever the buffer held at the snapshot, a full buffer
\* included.
C34_CompletesWhateverTheFill ==
    \A k \in CallIds :
        LET c == calls[k]
            appended == AppendedSince(c)
        IN (/\ c.pc = "polling" /\ ~TimedOut(c, now)
            /\ appended # <<>>
            /\ FirstSentinelLine(appended, 1, Sentinel(k), c.sentinel_cmd)
                   = Len(appended))
           => Iteration(c, k, buffer[c.obj], now).result = "completed"

\* C35: the output of a completed run_command never holds the call's
\* sentinel: a line that holds it and stands before the matched line is an
\* echo of the sentinel command, and echo filtering removes it.  The
\* completed calls of the sessions and the loop iteration applied to bounded
\* lists of new lines are both covered.
C35_NoSentinelInOutput ==
    /\ \A k \in CallIds :
          calls[k].result = "completed"
              => Sentinel(k) \notin Chars(calls[k].output)
    /\ (fn.op = "run_command" /\ fn.completed = "True")
          => Sentinel(1) \notin Chars(fn.result)

\* the iteration matched the sentinel line behind a prompt-prefixed echo of
\* the sentinel command, which holds the sentinel too, and returned nothing
C35_Witness ==
    /\ fn.op = "run_command" /\ fn.completed = "True"
    /\ fn.lines = <<<<"$", " ", "e", " ", "S1", "CR">>, <<"S1">>>>
    /\ fn.command = <<"c">>
    /\ fn.sentinel_cmd = <<"e", " ", "S1">>
    /\ fn.result = <<>>

\* C36: the output a run_command returns, completed or timed out, is made
\* of lines appended to the buffer after the call's snapshot, in their order:
\* it is the join of a selection of those lines, and never holds a line the
\* buffer held when the command was sent, also when lines were evicted since.
C36_OutputIsAppendedLines ==
    [][\A k \in CallIds :
         (Poll(k) /\ calls'[k].pc = "done") =>
             LET appended == AppendedSince(calls[k])
                 Pick(I) ==
                     [j \in 1..Cardinality(I) |->
                         appended[CHOOSE i \in I :
                                     Cardinality({h \in I : h <= i}) = j]]
             IN \E I \in SUBSET (1..Len(appended)) :
                    calls'[k].output = Join(Pick(I))
      ]_vars

\* a call timed out and returned a line, two lines having been appended since
\* its snapshot to a buffer that holds one
C36_Witness ==
    \E k \in CallIds :
        /\ calls[k].result = "timeout"
        /\ calls[k].output # <<>>
        /\ Len(log[calls[k].obj]) = MaxLines
        /\ Len(buffer[calls[k].obj]) = buffer_size

\* a manager with room for one session more, started, no session yet
InitFd == Constructed(max_sessions + 1)

NextFd ==
    \/ CreateSession
    \/ RemoveSession
    \/ RemoveResume
    \/ ReaderExit
    \/ ChildExit
    \/ ReaperWake
    \/ ReaperResume
    \/ Tick

SpecFd == InitFd /\ [][NextFd]_vars

\* C37: the master fd of a session is closed by that session's own stop()
\* only: no step closes the open fd of a session without that session
\* issuing the close, so the stop() of another session, whose fd number was
\* closed and handed out again, never closes it.
C37_StopClosesOwnFdOnly ==
    [][\A p \in Objs :
          (sess[p].fdOpen /\ ~sess'[p].fdOpen)
              => sess'[p].closes = sess[p].closes + 1
      ]_vars

\* C38: while tool calls are served, get_session never returns a session
\* whose stop() has begun: every registered session still has _running set,
\* because each removal path takes the session out of the registry before
\* its stop() starts.
C38_RegisteredNotStopping ==
    Serving =>
        \A i \in 1..Len(sessions) :
            LET o == get_session(sessions, sessions[i].id)
            IN sess[o].running

\* C39: no session leaks: every session object that is not (or no longer) in
\* the registry has had stop() invoked on it (_running cleared), whichever
\* way it left: remove_session, the reaper, SessionManager.stop()'s clear, or
\* its entry being overwritten by an insert under the same id.
C39_NoLeak ==
    \A o \in Objs :
        (sess[o].born /\ ~\E i \in 1..Len(sessions) : sessions[i].obj = o)
            => ~sess[o].running

\* C40: the buffered lines do not depend on the chunking: the lines buffered
\* after the output arrived in two reads, wherever it was cut, are the lines
\* buffered when the same text arrives in one read.
C40_ChunkingIndependent ==
    (fn.op = "_read_loop" /\ fn.applied = 1)
        => fn.result = ReadChunks(<<fn.text>>).lines

NextText ==
    \/ StripAnsiCodes
    \/ ReadSplit
    \/ FilterCommandEcho
    \/ GetBuffer
    \/ ScanNewLines
    \/ ReadChunkStart
    \/ ReadText

SpecText == InitText /\ [][NextText]_vars

====
